---------------------------- MODULE Spec2Model ----------------------------
(* A model of src/main.py: the menu-bar utility that turns a global hotkey *)
(* into a clipboard capture, a request to a hosted language model and a    *)
(* dialog.  The state is the application object (current_mode,             *)
(* required_modifiers, current_modifiers), the operating system around it  *)
(* (keys physically held, the clipboard, what has been displayed) and the  *)
(* threads started for each triggered action.                              *)
(*                                                                         *)
(* Text is a sequence of tokens.  A token is one of the characters the     *)
(* code or the shell treats specially (space, ', ", \) or a run of         *)
(* ordinary characters.  The Japanese literals of the source are written   *)
(* as ASCII tokens naming them.                                            *)
EXTENDS Naturals, Integers, Sequences, FiniteSets, TLC

(***************************************************************************)
(* Bounds of the model.                                                    *)
(***************************************************************************)
MaxTasks == 2
MaxTextLen == 2
MaxErrLen == 1
MaxFaults == 1
MaxPending == 1

(***************************************************************************)
(* Python values.                                                          *)
(***************************************************************************)
None == "<None>"

SQ == "'"
DQ == "\""
BS == "\\"
SP == " "

RECURSIVE SeqsUpTo(_, _)
SeqsUpTo(S, n) ==
  IF n = 0 THEN {<<>>}
  ELSE LET shorter == SeqsUpTo(S, n - 1)
       IN  shorter \cup {Append(s, c) : s \in shorter, c \in S}

Contains(s, tok) == \E i \in 1..Len(s) : s[i] = tok

IsInfix(part, s) ==
  \E i \in 0..(Len(s) - Len(part)) :
    \A j \in 1..Len(part) : s[i + j] = part[j]

(* str.strip(): leading and trailing whitespace removed. *)
RECURSIVE lstrip(_)
lstrip(s) == IF s # <<>> /\ Head(s) = SP THEN lstrip(Tail(s)) ELSE s

RECURSIVE rstrip(_)
rstrip(s) ==
  IF s # <<>> /\ s[Len(s)] = SP THEN rstrip(SubSeq(s, 1, Len(s) - 1)) ELSE s

(* A paste that is not stripped. *)
strip_missing(s) == s

strip(s) == rstrip(lstrip(s))

(* str.replace(old, new) for a one-character old. *)
RECURSIVE replace(_, _, _)
replace(s, old, new) ==
  IF s = <<>> THEN <<>>
  ELSE (IF Head(s) = old THEN new ELSE <<Head(s)>>) \o replace(Tail(s), old, new)

(* The two replace calls of show_notification and show_result. *)
escape(s) == replace(replace(s, DQ, <<BS, DQ>>), SQ, <<BS, SQ>>)

(***************************************************************************)
(* os.system(cmd): /bin/sh splits the command line into words, then        *)
(* osascript compiles and runs the script given after -e.                  *)
(***************************************************************************)
(* sh quoting: mode "U" unquoted, "S" inside '...', "D" inside "...". *)
RECURSIVE ShLex(_, _, _, _, _)
ShLex(s, mode, cur, inWord, words) ==
  IF s = <<>> THEN
    IF mode # "U" THEN [ok |-> FALSE, words |-> <<>>]
    ELSE [ok |-> TRUE, words |-> IF inWord THEN Append(words, cur) ELSE words]
  ELSE
    LET c == Head(s)
        rest == Tail(s)
    IN  CASE mode = "S" ->
               IF c = SQ THEN ShLex(rest, "U", cur, TRUE, words)
               ELSE ShLex(rest, "S", Append(cur, c), TRUE, words)
          [] mode = "D" ->
               IF c = DQ THEN ShLex(rest, "U", cur, TRUE, words)
               ELSE IF c = BS /\ rest # <<>> /\ Head(rest) \in {DQ, BS}
                 THEN ShLex(Tail(rest), "D", Append(cur, Head(rest)), TRUE, words)
               ELSE ShLex(rest, "D", Append(cur, c), TRUE, words)
          [] OTHER ->
               IF c = SP THEN
                 ShLex(rest, "U", <<>>, FALSE,
                       IF inWord THEN Append(words, cur) ELSE words)
               ELSE IF c = SQ THEN ShLex(rest, "S", cur, TRUE, words)
               ELSE IF c = DQ THEN ShLex(rest, "D", cur, TRUE, words)
               ELSE IF c = BS /\ rest # <<>>
                 THEN ShLex(Tail(rest), "U", Append(cur, Head(rest)), TRUE, words)
               ELSE ShLex(rest, "U", Append(cur, c), TRUE, words)

sh(cmd) == ShLex(cmd, "U", <<>>, FALSE, <<>>)

(* An AppleScript string literal: reads up to the closing ", decoding \" *)
(* and \\; any other escape or a missing close is a syntax error.        *)
RECURSIVE AsLiteral(_, _)
AsLiteral(s, acc) ==
  IF s = <<>> THEN [ok |-> FALSE, text |-> <<>>, rest |-> <<>>]
  ELSE IF Head(s) = DQ THEN [ok |-> TRUE, text |-> acc, rest |-> Tail(s)]
  ELSE IF Head(s) = BS THEN
    IF Tail(s) # <<>> /\ Head(Tail(s)) \in {DQ, BS}
    THEN AsLiteral(Tail(Tail(s)), Append(acc, Head(Tail(s))))
    ELSE [ok |-> FALSE, text |-> <<>>, rest |-> <<>>]
  ELSE AsLiteral(Tail(s), Append(acc, Head(s)))

StartsWith(s, p) == Len(s) >= Len(p) /\ SubSeq(s, 1, Len(p)) = p
Drop(s, n) == SubSeq(s, n + 1, Len(s))

NotSeen == [kind |-> "none"]

(* `<verb> "<message>" with title "<title>"<tail>`: what the script shows. *)
AsDisplay(script, verb, tail, kind) ==
  LET head == <<"display", SP, verb, SP, DQ>>
      mid  == <<SP, "with", SP, "title", SP, DQ>>
  IN  IF ~StartsWith(script, head) THEN NotSeen
      ELSE LET m == AsLiteral(Drop(script, Len(head)), <<>>)
           IN  IF ~m.ok \/ ~StartsWith(m.rest, mid) THEN NotSeen
               ELSE LET t == AsLiteral(Drop(m.rest, Len(mid)), <<>>)
                    IN  IF ~t.ok \/ t.rest # tail THEN NotSeen
                        ELSE [kind |-> kind, title |-> t.text, body |-> m.text]

DialogTail ==
  <<SP, "buttons", SP, "{", DQ, "OK", DQ, "}", SP, "default", SP, "button", SP,
    DQ, "OK", DQ, SP, "with", SP, "icon", SP, "note">>

osascript(script) ==
  IF script = <<"beep">> THEN [kind |-> "beep"]
  ELSE IF StartsWith(script, <<"display", SP, "notification">>)
    THEN AsDisplay(script, "notification", <<>>, "notification")
  ELSE AsDisplay(script, "dialog", DialogTail, "dialog")

(* What the user sees of one os.system call. *)
os_system(cmd) ==
  LET r == sh(cmd)
  IN  IF r.ok /\ Len(r.words) >= 3 /\ r.words[1] = <<"osascript">>
         /\ r.words[2] = <<"-e">>
      THEN osascript(r.words[3])
      ELSE NotSeen

(* show_notification(title, message, sound): the os.system calls it makes, *)
(* in order, as what each one displays.                                    *)
show_notification(title, message, sound) ==
  LET m == escape(message)
      t == escape(title)
      cmd == <<"osascript", SP, "-e", SP, SQ, "display", SP, "notification", SP, DQ>>
             \o m \o <<DQ, SP, "with", SP, "title", SP, DQ>> \o t \o <<DQ, SQ>>
  IN  (IF sound THEN <<os_system(<<"osascript", SP, "-e", SP, DQ, "beep", DQ>>)>>
       ELSE <<>>)
      \o <<os_system(cmd)>>

(* show_result(title, message): os.system never raises, so the except      *)
(* branch of show_result is not taken.                                     *)
show_result(title, message) ==
  LET m == escape(message)
      t == escape(title)
      cmd == <<"osascript", SP, "-e", SP, SQ, "display", SP, "dialog", SP, DQ>>
             \o m \o <<DQ, SP, "with", SP, "title", SP, DQ>> \o t \o <<DQ>>
             \o DialogTail \o <<SQ, SP>>
  IN  <<os_system(cmd)>>

(***************************************************************************)
(* Configuration, lines 21-34.                                             *)
(***************************************************************************)
TRANSLATE_SHORTCUT_KEY == "."
MODE_MEANING == "meaning"
MODE_TRANSLATE == "translate"

(* The values the environment variables take in the model. *)
ApiKeys == {None, "", "key"}
ShortcutKeys == {",", "."}
ShortcutModifiers == {<<"cmd", "shift">>, <<"shift", "hyper">>, <<"hyper">>}

(***************************************************************************)
(* pynput keys.  A member of keyboard.Key has neither a char nor a vk      *)
(* attribute; a keyboard.KeyCode always has both, char being None when the *)
(* event carries no character.  hasattr(key, a) is membership in the       *)
(* record's domain.                                                        *)
(***************************************************************************)
Key(name) == [cls |-> "Key", name |-> name]
KeyCode(vk, char) == [cls |-> "KeyCode", vk |-> vk, char |-> char]
hasattr(key, attr) == attr \in DOMAIN key

KeyComma == KeyCode(43, ",")
KeyPeriod == KeyCode(47, ".")
KeyVk44 == KeyCode(44, None)
KeyVk46 == KeyCode(46, None)
(* The events of line 195.  One with code 0 is posted for text typed by  *)
(* another program and carries its character; one with code 255 carries *)
(* none.                                                                *)
KeyPad0 == KeyCode(0, ",")
KeyPad255 == KeyCode(255, None)
KeyC == KeyCode(8, "c")

(* The keys of the keyboard the user presses in the model. *)
ModifierKeys == {Key("cmd"), Key("shift")}
CharKeys == {KeyComma, KeyPeriod, KeyVk44, KeyVk46, KeyPad0, KeyPad255}

(* modifier_map, lines 163-168. *)
modifier_map ==
  [n \in {"cmd", "shift", "ctrl", "alt"} |-> Key(n)]

(* Every configured name taken for a key, known or not. *)
RequiredModifiersUnfiltered(names) == {Key(names[i]) : i \in 1..Len(names)}

(* Lines 171-174: the names of SHORTCUT_MODIFIER found in modifier_map. *)
RequiredModifiers(names) ==
  {modifier_map[names[i]] : i \in {j \in 1..Len(names) : names[j] \in DOMAIN modifier_map}}

(***************************************************************************)
(* The texts of the model.  A selection is <<>> when nothing is selected   *)
(* in the front application, else <<text>>.                                *)
(***************************************************************************)
Texts == SeqsUpTo({"a", SP}, MaxTextLen)
Selections == {<<>>} \cup {<<t>> : t \in Texts \ {<<>>}}
ErrorMessages == SeqsUpTo({"e", SQ}, MaxErrLen) \ {<<>>}
Responses == {<<"r">>, <<"it", SQ, "s">>}

(* The literals of process_text and query_llm. *)
TitleNoSelection == <<"text-not-selected">>
MsgNoSelection == <<"select-text-then-press-the-shortcut">>
TitleError == <<"error">>
MsgCaptureError == <<"error-while-processing-text">>
MsgQueryErrorPrefix == <<"error-while-processing:", SP>>
TitleTranslate == <<"translation-and-similar-expressions">>
TitleMeaning == <<"summary-of-text">>
MarkerTranslation == "[japanese-translation]"
MarkerSimilar == "[Similar Expressions]"

(* Lines 330-346 and 349-355: the two prompt templates. *)
TranslatePrompt(text) ==
  <<"output-these-two-points:", "1-japanese-translation", "2-similar-words",
    "text:">> \o text \o
  <<"output-format:", MarkerTranslation, "(translation)", MarkerSimilar,
    "(synonym-1)", "(synonym-2)", "(synonym-3)">>

MeaningPrompt(text) ==
  <<"explain-concisely-in-50-100-characters", "explain-technical-terms",
    "text:">> \o text

(* The branch of line 329 testing the other mode. *)
build_prompt_swapped(mode, text) ==
  IF mode = MODE_MEANING THEN TranslatePrompt(text) ELSE MeaningPrompt(text)

(* Lines 329 and 348: the branch on current_mode. *)
build_prompt(mode, text) ==
  IF mode = MODE_TRANSLATE THEN TranslatePrompt(text) ELSE MeaningPrompt(text)

build_title(mode) ==
  IF mode = MODE_TRANSLATE THEN TitleTranslate ELSE TitleMeaning

VARIABLES
  API_KEY,            \* os.getenv("API_KEY")
  SHORTCUT_KEY,       \* os.getenv("SHORTCUT_KEY", ",")
  SHORTCUT_MODIFIER,  \* os.getenv("SHORTCUT_MODIFIER", "cmd+shift").split("+")
  phase,              \* "start", "running" or "exited"
  exit_code,          \* <<>> while the process lives, <<code>> once it exited
  started,            \* what __main__ has set up: "client", "listener", "menu"
  alert,              \* what __main__ displayed before exiting
  current_mode,
  required_modifiers,
  current_modifiers,
  physical,           \* the keys physically held down
  fired,              \* tasks spawned since the held character key went down
  clipboard,
  tasks,              \* one record per triggered action
  key_errors,         \* the exceptions the key handlers caught and printed
  posted              \* the events the Controller posted, not yet handled

vars == <<API_KEY, SHORTCUT_KEY, SHORTCUT_MODIFIER, phase, exit_code, started,
          alert, current_mode, required_modifiers, current_modifiers, physical,
          fired, clipboard, tasks, key_errors, posted>>

config == <<API_KEY, SHORTCUT_KEY, SHORTCUT_MODIFIER>>
process == <<phase, exit_code, started, alert, required_modifiers, key_errors>>

(* The process before __main__ runs, SHORTCUT_KEY being one of shortcuts, *)
(* SHORTCUT_MODIFIER one of modifiers and the clipboard holding one of   *)
(* texts.                                                                *)
InitOver(shortcuts, modifiers, texts) ==
  /\ API_KEY \in ApiKeys
  /\ SHORTCUT_KEY \in shortcuts
  /\ SHORTCUT_MODIFIER \in modifiers
  /\ phase = "start"
  /\ exit_code = <<>>
  /\ started = {}
  /\ alert = <<>>
  /\ current_mode = None
  /\ required_modifiers = {}
  /\ current_modifiers = {}
  /\ physical = {}
  /\ fired = 0
  /\ clipboard \in texts
  /\ tasks = <<>>
  /\ key_errors = <<>>
  /\ posted = <<>>

(***************************************************************************)
(* __main__, lines 390-402.  Main is the test of API_KEY and the           *)
(* construction of the application (__init__, setup_llm_model,             *)
(* setup_keyboard_listener), which starts the listener thread at line 186; *)
(* run is the call of run() at line 402, which enters the menu loop on the *)
(* main thread.  Between the two the listener already handles events.      *)
(***************************************************************************)
(* A test for `API_KEY is None` alone. *)
falsy_none_only(v) == v = None

(* `not API_KEY`: None and the empty string are false. *)
falsy(v) == v = None \/ v = ""

Main ==
  /\ phase = "start"
  /\ IF falsy(API_KEY)
     THEN /\ alert' = show_notification(<<"configuration-error">>,
                                        <<"api-key-not-set">>, TRUE)
          /\ phase' = "exited"
          /\ exit_code' = <<1>>
          /\ UNCHANGED <<started, current_mode, required_modifiers>>
     ELSE /\ phase' = "running"
          /\ current_mode' = MODE_MEANING
          /\ started' = {"client", "listener"}
          /\ required_modifiers' = RequiredModifiers(SHORTCUT_MODIFIER)
          /\ UNCHANGED <<exit_code, alert>>
  /\ UNCHANGED <<config, current_modifiers, physical, fired, clipboard, tasks,
                 key_errors, posted>>

run ==
  /\ phase = "running"
  /\ "menu" \notin started
  /\ started' = started \cup {"menu"}
  /\ UNCHANGED <<config, phase, exit_code, alert, required_modifiers, key_errors,
                 current_mode, current_modifiers, physical, fired, clipboard, tasks,
                 posted>>

(***************************************************************************)
(* The listener: on_key_press, lines 191-233.                              *)
(***************************************************************************)
(* No event is set aside. *)
ignored_never(key) == FALSE

(* Lines 195 and 239. *)
ignored(key) == key.cls = "KeyCode" /\ key.vk \in {0, 255}

(* Lines 209-220. *)
is_meaning_shortcut(key) ==
  IF hasattr(key, "char") THEN key.char = SHORTCUT_KEY
  ELSE IF hasattr(key, "vk") THEN key.vk = 44
  ELSE FALSE

is_translate_shortcut(key) ==
  IF hasattr(key, "char") THEN key.char = TRANSLATE_SHORTCUT_KEY
  ELSE IF hasattr(key, "vk") THEN key.vk = 46
  ELSE FALSE

(* Every pressed key recorded. *)
record_any_key(key) == current_modifiers \cup {key}

(* Lines 201-202. *)
record_modifier(key) ==
  IF key \in required_modifiers THEN current_modifiers \cup {key}
  ELSE current_modifiers

(* The combination check without the issubset test of line 223. *)
trigger_without_modifiers(key) ==
  IF ignored(key) THEN None
  ELSE IF is_meaning_shortcut(key) THEN MODE_MEANING
  ELSE IF is_translate_shortcut(key) THEN MODE_TRANSLATE
  ELSE None

(* Lines 223-231: the mode a press of key sets, None when it fires nothing. *)
trigger(key) ==
  IF ignored(key) THEN None
  ELSE IF required_modifiers \subseteq record_modifier(key)
    THEN IF is_meaning_shortcut(key) THEN MODE_MEANING
         ELSE IF is_translate_shortcut(key) THEN MODE_TRANSLATE
         ELSE None
  ELSE None

(* The frame of a thread about to run process_text: where it is, whether *)
(* it is the main thread or one of its own, the mode its trigger set,    *)
(* whether the copy found a selection, what paste() returned (<<raw>>),  *)
(* the locals of query_llm, the requests made, the error raised and what *)
(* it displayed.                                                         *)
NewTask(thread, mode) ==
  [pc |-> "press_cmd", thread |-> thread, intended |-> mode, selected |-> FALSE,
   pasted |-> <<>>, text |-> <<>>, mode_read |-> None, prompt |-> <<>>,
   requests |-> 0, error |-> <<>>, ui |-> <<>>]

(* on_key_press(key) as the listener runs it over the tasks `base`. *)
on_key_press(key, base) ==
  /\ current_modifiers' = IF ignored(key) THEN current_modifiers
                          ELSE record_modifier(key)
  /\ IF trigger(key) # None
     THEN /\ Len(base) < MaxTasks
          /\ current_mode' = trigger(key)
          /\ tasks' = Append(base, NewTask("thread", trigger(key)))
     ELSE /\ current_mode' = current_mode
          /\ tasks' = base

(* The exceptions Thread.start() of lines 226 and 230 raises. *)
ThreadStartErrors == {"RuntimeError"}

(* A handler with no except clause. *)
except_nothing(e) == FALSE

(* Lines 232 and 248: `except Exception` catches every exception but the *)
(* ones derived from BaseException alone.                                *)
except_Exception(e) == e \notin {"KeyboardInterrupt", "SystemExit", "GeneratorExit"}

(* on_key_press(key) when Thread.start() raises e: the modifier is      *)
(* recorded, the mode is written and no thread runs; the except clause  *)
(* of lines 232-233 prints e.  An exception that left the handler would *)
(* end the listener thread.                                             *)
on_key_press_raises(key, e) ==
  /\ trigger(key) # None
  /\ current_modifiers' = record_modifier(key)
  /\ current_mode' = trigger(key)
  /\ IF except_Exception(e)
     THEN key_errors' = Append(key_errors, e) /\ started' = started
     ELSE key_errors' = key_errors /\ started' = started \ {"listener"}

(* on_key_release, lines 235-249. *)
released(key) ==
  IF ignored(key) THEN current_modifiers
  ELSE IF key \in current_modifiers THEN current_modifiers \ {key}
  ELSE current_modifiers

on_key_release(key) == current_modifiers' = released(key)

(***************************************************************************)
(* The user at the keyboard.  One character key is held at a time; a held  *)
(* character key repeats.                                                  *)
(***************************************************************************)
Fires(key) == IF trigger(key) # None THEN 1 ELSE 0

(* The listener thread of line 186 is delivering events. *)
Listening == phase = "running" /\ "listener" \in started

PhysPress(key) ==
  /\ Listening
  /\ key \notin physical
  /\ key \in CharKeys => physical \cap CharKeys = {}
  /\ physical' = physical \cup {key}
  /\ fired' = IF key \in CharKeys THEN Fires(key) ELSE fired
  /\ on_key_press(key, tasks)
  /\ UNCHANGED <<config, process, clipboard, posted>>

(* The press of a trigger key for which no thread can be started. *)
PhysPressRaises(key, e) ==
  /\ Listening
  /\ Len(key_errors) < MaxFaults
  /\ key \notin physical
  /\ key \in CharKeys => physical \cap CharKeys = {}
  /\ physical' = physical \cup {key}
  /\ fired' = IF key \in CharKeys THEN 0 ELSE fired
  /\ on_key_press_raises(key, e)
  /\ UNCHANGED <<config, phase, exit_code, alert, required_modifiers, clipboard,
                 tasks, posted>>

Repeat(key) ==
  /\ Listening
  /\ key \in physical \cap CharKeys
  /\ fired' = fired + Fires(key)
  /\ on_key_press(key, tasks)
  /\ UNCHANGED <<config, process, physical, clipboard, posted>>

PhysRelease(key) ==
  /\ Listening
  /\ key \in physical
  /\ physical' = physical \ {key}
  /\ fired' = IF key \in CharKeys THEN 0 ELSE fired
  /\ on_key_release(key)
  /\ UNCHANGED <<config, process, current_mode, clipboard, tasks, posted>>

(***************************************************************************)
(* The menu, run by the main thread: lines 251-271.  A menu callback runs  *)
(* only when the main thread is not inside another callback.  What the     *)
(* mode switches display is not part of the state.                         *)
(***************************************************************************)
InProcessText(t) ==
  t.pc \in {"press_cmd", "press_c", "release_c", "release_cmd", "paste"}

MainIdle ==
  \A i \in 1..Len(tasks) : ~(tasks[i].thread = "main" /\ InProcessText(tasks[i]))

(* The main thread is in the menu loop of run(). *)
InMenuLoop == phase = "running" /\ "menu" \in started

switch_mode(mode) ==
  /\ InMenuLoop
  /\ MainIdle
  /\ current_mode' = mode
  /\ UNCHANGED <<config, process, current_modifiers, physical, fired, clipboard,
                 tasks, posted>>

switch_to_meaning_mode == switch_mode(MODE_MEANING)

switch_to_translate_mode == switch_mode(MODE_TRANSLATE)

menu_action(mode) ==
  /\ InMenuLoop
  /\ MainIdle
  /\ Len(tasks) < MaxTasks
  /\ current_mode' = mode
  /\ tasks' = Append(tasks, NewTask("main", mode))
  /\ UNCHANGED <<config, process, current_modifiers, physical, fired, clipboard,
                 posted>>

get_translation == menu_action(MODE_TRANSLATE)

get_meaning == menu_action(MODE_MEANING)

(* quit_app, lines 381-387: the listener is stopped and the application *)
(* terminates; the process ends with status 0 and its threads with it.  *)
quit_app ==
  /\ InMenuLoop
  /\ MainIdle
  /\ started' = started \ {"listener", "menu"}
  /\ phase' = "exited"
  /\ exit_code' = <<0>>
  /\ UNCHANGED <<config, alert, required_modifiers, key_errors, current_mode,
                 current_modifiers, physical, fired, clipboard, tasks, posted>>

(***************************************************************************)
(* process_text, lines 273-321, one step per call that other threads can   *)
(* interleave with.  The Controller posts an event and returns; the        *)
(* listener thread handles the posted events later, in the order posted.   *)
(***************************************************************************)
At(i, pc) == phase = "running" /\ i \in 1..Len(tasks) /\ tasks[i].pc = pc

Step(i, changes) == [tasks EXCEPT ![i] = changes @@ tasks[i]]

(* The thread ends: its frame is gone, what it did remains. *)
End(i, changes) ==
  [tasks EXCEPT ![i] =
     changes @@ [pc |-> "done", pasted |-> tasks[i].pasted,
                 mode_read |-> tasks[i].mode_read, requests |-> tasks[i].requests]
             @@ NewTask("thread", None)]

Event(press, key) == [press |-> press, key |-> key]

(* Controller.press(key) and Controller.release(key). *)
post(press, key) ==
  /\ Len(posted) < MaxPending
  /\ posted' = Append(posted, Event(press, key))

(* Line 282. *)
PressCmd(i) ==
  /\ At(i, "press_cmd")
  /\ post(TRUE, Key("cmd"))
  /\ tasks' = Step(i, [pc |-> "press_c"])
  /\ UNCHANGED <<config, process, current_mode, current_modifiers, physical, fired,
                 clipboard>>

(* Line 283: with cmd down the front application copies its selection, *)
(* if it has one.                                                      *)
PressC(i, sel) ==
  /\ At(i, "press_c")
  /\ clipboard' = IF sel = <<>> THEN clipboard ELSE sel[1]
  /\ post(TRUE, KeyC)
  /\ tasks' = Step(i, [pc |-> "release_c", selected |-> sel # <<>>])
  /\ UNCHANGED <<config, process, current_mode, current_modifiers, physical, fired>>

(* Line 284. *)
ReleaseC(i) ==
  /\ At(i, "release_c")
  /\ post(FALSE, KeyC)
  /\ tasks' = Step(i, [pc |-> "release_cmd"])
  /\ UNCHANGED <<config, process, current_mode, current_modifiers, physical, fired,
                 clipboard>>

(* Line 285. *)
ReleaseCmd(i) ==
  /\ At(i, "release_cmd")
  /\ post(FALSE, Key("cmd"))
  /\ tasks' = Step(i, [pc |-> "paste"])
  /\ UNCHANGED <<config, process, current_mode, current_modifiers, physical, fired,
                 clipboard>>

(* The listener thread takes the oldest posted event and runs its callback. *)
Handle ==
  /\ Listening
  /\ posted # <<>>
  /\ posted' = Tail(posted)
  /\ IF Head(posted).press
     THEN on_key_press(Head(posted).key, tasks)
     ELSE on_key_release(Head(posted).key) /\ UNCHANGED <<current_mode, tasks>>
  /\ UNCHANGED <<config, process, physical, fired, clipboard>>

(* query_llm called where process_text runs. *)
query_thread_of_caller(t) == t.thread

(* Line 306: query_llm runs on a thread started for it. *)
query_thread(t) == "thread"

(* Lines 288-306: the thread of process_text ends either way; query_llm *)
(* runs on a thread of its own.                                         *)
Paste(i) ==
  /\ At(i, "paste")
  /\ LET selected_text == strip(clipboard)
     IN  tasks' =
           IF selected_text = <<>>
           THEN End(i, [pasted |-> <<clipboard>>,
                        ui |-> show_notification(TitleNoSelection, MsgNoSelection,
                                                 TRUE)])
           ELSE Step(i, [pc |-> "query", thread |-> query_thread(tasks[i]),
                         pasted |-> <<clipboard>>, text |-> selected_text])
  /\ UNCHANGED <<config, process, current_mode, current_modifiers, physical, fired,
                 clipboard, posted>>

(* Lines 308-314: pyperclip.paste() raises. *)
PasteRaises(i) ==
  /\ At(i, "paste")
  /\ tasks' = End(i, [ui |-> show_notification(TitleError, MsgCaptureError, TRUE)])
  /\ UNCHANGED <<config, process, current_mode, current_modifiers, physical, fired,
                 clipboard, posted>>

(***************************************************************************)
(* query_llm, lines 323-371.                                               *)
(***************************************************************************)
(* A mode captured when the task was triggered. *)
mode_of_trigger(t) == t.intended

(* Line 329: the mode of a task is self.current_mode as query_llm finds it. *)
mode_in_query_llm(t) == current_mode

(* Lines 328-356. *)
BuildPrompt(i) ==
  /\ At(i, "query")
  /\ tasks' = Step(i, [pc |-> "generate", mode_read |-> mode_in_query_llm(tasks[i]),
                       prompt |-> build_prompt(mode_in_query_llm(tasks[i]),
                                               tasks[i].text)])
  /\ UNCHANGED <<config, process, current_mode, current_modifiers, physical, fired,
                 clipboard, posted>>

(* Lines 359-363: the model answers. *)
Generate(i, response) ==
  /\ At(i, "generate")
  /\ LET result == strip(response)
     IN  tasks' = End(i, [requests |-> tasks[i].requests + 1,
                          ui |-> show_result(build_title(tasks[i].mode_read), result)])
  /\ UNCHANGED <<config, process, current_mode, current_modifiers, physical, fired,
                 clipboard, posted>>

(* Lines 364-371: generate_content, or reading response.text, raises e. *)
GenerateRaises(i, e) ==
  /\ At(i, "generate")
  /\ tasks' = End(i, [requests |-> tasks[i].requests + 1, error |-> e,
                      ui |-> show_notification(TitleError, MsgQueryErrorPrefix \o e,
                                               TRUE)])
  /\ UNCHANGED <<config, process, current_mode, current_modifiers, physical, fired,
                 clipboard, posted>>

(***************************************************************************)
(* The system over a keyboard, the selections the user makes, and the      *)
(* answers and failures of the model service.                              *)
(***************************************************************************)
TaskIds == 1..MaxTasks

NextOver(keys, selections, responses, errors) ==
  \/ Main
  \/ run
  \/ quit_app
  \/ Handle
  \/ \E key \in keys : PhysPress(key)
  \/ \E key \in keys : Repeat(key)
  \/ \E key \in keys : PhysRelease(key)
  \/ switch_to_meaning_mode
  \/ switch_to_translate_mode
  \/ get_meaning
  \/ get_translation
  \/ \E i \in TaskIds : PressCmd(i)
  \/ \E i \in TaskIds, sel \in selections : PressC(i, sel)
  \/ \E i \in TaskIds : ReleaseC(i)
  \/ \E i \in TaskIds : ReleaseCmd(i)
  \/ \E i \in TaskIds : Paste(i)
  \/ \E i \in TaskIds : PasteRaises(i)
  \/ \E i \in TaskIds : BuildPrompt(i)
  \/ \E i \in TaskIds, response \in responses : Generate(i, response)
  \/ \E i \in TaskIds, e \in errors : GenerateRaises(i, e)

(* The dispatcher: the whole keyboard under the default SHORTCUT_KEY, with *)
(* two or one modifier required, where a text is always selected, over    *)
(* one answer and one failure.                                            *)
Init == InitOver({","}, {<<"cmd", "shift">>, <<"shift", "hyper">>}, {<<>>})
Next == NextOver(ModifierKeys \cup CharKeys, {<<<<"a">>>>}, {<<"r">>}, {<<"e">>})
Spec == Init /\ [][Next]_vars

(* The configurations: every SHORTCUT_KEY and SHORTCUT_MODIFIER of the *)
(* model, over the modifier and trigger keys.                          *)
InitConfig == InitOver(ShortcutKeys, ShortcutModifiers, {<<>>})
NextConfig ==
  NextOver(ModifierKeys \cup {KeyComma, KeyPeriod}, {<<<<"a">>>>}, {<<"r">>},
           {<<"e">>})
SpecConfig == InitConfig /\ [][NextConfig]_vars

(* The tasks: every text, answer and failure, started from the menu or by *)
(* the two trigger keys, which fire alone when no configured modifier is  *)
(* recognised.                                                            *)
InitTasks == InitOver({","}, {<<"hyper">>}, Texts)
NextTasks == NextOver({KeyComma, KeyPeriod}, Selections, Responses, ErrorMessages)
SpecTasks == InitTasks /\ [][NextTasks]_vars

(* The listener under failure: the modifier and trigger keys, where *)
(* starting a thread may fail.                                      *)
InitFaults == InitOver({","}, {<<"cmd", "shift">>}, {<<>>})
NextFaults ==
  \/ NextOver(ModifierKeys \cup {KeyComma, KeyPeriod}, {<<<<"a">>>>},
              {<<"r">>}, {<<"e">>})
  \/ \E key \in {KeyComma, KeyPeriod}, e \in ThreadStartErrors :
       PhysPressRaises(key, e)
SpecFaults == InitFaults /\ [][NextFaults]_vars

(***************************************************************************)
(* The properties.                                                         *)
(***************************************************************************)
Live == 1..Len(tasks)

InChord(t) == t.pc \in {"press_c", "release_c", "release_cmd"}

(* The step is the user pressing key: the listener runs on_key_press(key). *)
Pressed(key) == key \notin physical /\ physical' = physical \cup {key}

(* The step starts a thread for process_text. *)
Spawns == Len(tasks') = Len(tasks) + 1

(* A key matches a trigger by its character, or by the fallback code when *)
(* the event carries no character.                                        *)
MatchesMeaning(key) ==
  /\ key.cls = "KeyCode"
  /\ key.char = SHORTCUT_KEY \/ (key.char = None /\ key.vk = 44)

MatchesTranslate(key) ==
  /\ key.cls = "KeyCode"
  /\ key.char = TRANSLATE_SHORTCUT_KEY \/ (key.char = None /\ key.vk = 46)

Notifications(ui) == SelectSeq(ui, LAMBDA e : e.kind = "notification")
Dialogs(ui) == SelectSeq(ui, LAMBDA e : e.kind = "dialog")
IsBlank(s) == \A j \in 1..Len(s) : s[j] = SP

(* C1: whenever no task is between pressing and releasing the copy chord *)
(* and the listener has handled every posted event, current_modifiers is *)
(* exactly the set of required modifiers that are physically held down.  *)
C1_HeldModifiersExact ==
  (phase = "running" /\ posted = <<>> /\ \A i \in Live : ~InChord(tasks[i]))
    => current_modifiers = physical \cap required_modifiers

(* C2: a key press that on_key_press handles starts a task if and only if *)
(* afterwards current_modifiers contains required_modifiers and the key   *)
(* matches the meaning or the translate trigger, by character or by the   *)
(* fallback key code.                                                     *)
C2_TriggerIff ==
  [][\A key \in ModifierKeys \cup CharKeys :
       (Pressed(key) /\ ~ignored(key)) =>
         (Spawns <=> /\ required_modifiers \subseteq current_modifiers'
                     /\ MatchesMeaning(key) \/ MatchesTranslate(key))]_vars

(* C3: a task whose copy chord found nothing selected never goes on to *)
(* query_llm.                                                          *)
C3_NoSelectionNoInference ==
  \A i \in Live : tasks[i].pc \in {"query", "generate"} => tasks[i].selected

(* C4: a task that read an empty or whitespace-only text from the        *)
(* clipboard has ended without starting query_llm, has made no inference *)
(* request, and has shown exactly one notification, the "no selection"   *)
(* one, and no dialog.                                                   *)
C4_BlankTextNoQuery ==
  \A i \in Live :
    (tasks[i].pasted # <<>> /\ IsBlank(tasks[i].pasted[1])) =>
      /\ tasks[i].pc = "done"
      /\ tasks[i].mode_read = None
      /\ tasks[i].requests = 0
      /\ Notifications(tasks[i].ui) =
           <<[kind |-> "notification", title |-> TitleNoSelection,
              body |-> MsgNoSelection]>>
      /\ Dialogs(tasks[i].ui) = <<>>

C4_Witness ==
  \E i \in Live : tasks[i].pasted = <<<<SP>>>> /\ tasks[i].pc = "done"

(* C5: a task whose inference call failed has shown exactly one          *)
(* notification, the notification contains the error's message, and the  *)
(* task has shown no dialog.                                             *)
C5_OneErrorNotification ==
  \A i \in Live :
    tasks[i].error # <<>> =>
      /\ Len(Notifications(tasks[i].ui)) = 1
      /\ IsInfix(tasks[i].error, Notifications(tasks[i].ui)[1].body)
      /\ Dialogs(tasks[i].ui) = <<>>

(* C6: with API_KEY absent or empty, once __main__ has run the process   *)
(* has exited with status 1, and the inference client, the listener and  *)
(* the menu were never set up: no mode, no task.                         *)
C6_MissingKeyExits ==
  (API_KEY \in {None, ""} /\ phase # "start") =>
    /\ phase = "exited"
    /\ exit_code = <<1>>
    /\ started = {}
    /\ current_mode = None
    /\ tasks = <<>>

C6_Witness == API_KEY = "" /\ phase = "exited" /\ exit_code = <<1>>

(* C7: when query_llm builds its prompt, the prompt is the template of   *)
(* the mode last written to current_mode: for translate it holds the     *)
(* captured text and the translation and similar-expressions markers,    *)
(* for meaning it is the explanation request holding the captured text.  *)
C7_PromptUsesCurrentMode ==
  [][\A i \in TaskIds :
       (At(i, "query") /\ tasks'[i].pc = "generate") =>
         LET p == tasks'[i].prompt
             text == tasks[i].text
         IN  /\ text # <<>>
             /\ IsInfix(text, p)
             /\ current_mode = MODE_TRANSLATE =>
                  /\ Contains(p, MarkerTranslation)
                  /\ Contains(p, MarkerSimilar)
                  /\ ~Contains(p, "explain-concisely-in-50-100-characters")
             /\ current_mode = MODE_MEANING =>
                  /\ Contains(p, "explain-concisely-in-50-100-characters")
                  /\ ~Contains(p, MarkerTranslation)
                  /\ ~Contains(p, MarkerSimilar)]_vars

(* A task started for meaning that built the translate prompt after the *)
(* mode was switched.                                                   *)
C7_Witness ==
  \E i \in Live :
    /\ tasks[i].pc = "generate"
    /\ tasks[i].intended = MODE_MEANING
    /\ tasks[i].mode_read = MODE_TRANSLATE
    /\ current_mode = MODE_TRANSLATE
    /\ Contains(tasks[i].prompt, MarkerSimilar)

(* C8: a press of the period key with every required modifier held sets *)
(* the mode to translate and starts a task, whatever SHORTCUT_KEY is.   *)
C8_PeriodTranslates ==
  [][(Pressed(KeyPeriod) /\ required_modifiers \subseteq current_modifiers
        /\ required_modifiers \subseteq physical) =>
       (Spawns /\ current_mode' = MODE_TRANSLATE)]_vars

(* C9: a press of a key that carries no character and has key code 44   *)
(* (46), with every required modifier held, starts a meaning            *)
(* (translate) task.                                                    *)
C9_FallbackKeyCode ==
  [][/\ (Pressed(KeyVk44) /\ required_modifiers # {}
            /\ required_modifiers \subseteq current_modifiers) =>
          (Spawns /\ current_mode' = MODE_MEANING)
     /\ (Pressed(KeyVk46) /\ required_modifiers # {}
            /\ required_modifiers \subseteq current_modifiers) =>
          (Spawns /\ current_mode' = MODE_TRANSLATE)]_vars

(* C10: with the required modifiers held, at most one task is started *)
(* between a key going down and its release.                          *)
C10_OncePerKeyDown ==
  (required_modifiers # {} /\ required_modifiers \subseteq physical) => fired <= 1

(* C11: an exception raised while on_key_press dispatches a key is caught *)
(* in the handler: the listener keeps running, and after the failure a    *)
(* press is still handled, recording a required modifier and starting a   *)
(* task when the trigger condition holds, and a release still removes the *)
(* released modifier.                                                     *)
C11_HandlerSwallows ==
  /\ [](phase = "running" => "listener" \in started)
  /\ [][\A key \in ModifierKeys \cup {KeyComma, KeyPeriod} :
         /\ (key_errors # <<>> /\ key_errors' = key_errors /\ Pressed(key)) =>
              /\ key \in required_modifiers => key \in current_modifiers'
              /\ ( /\ required_modifiers \subseteq current_modifiers'
                   /\ key.cls = "KeyCode"
                   /\ key.char \in {SHORTCUT_KEY, TRANSLATE_SHORTCUT_KEY} )
                   => (Spawns /\ tasks'[Len(tasks')].pc = "press_cmd")
         /\ (key_errors # <<>> /\ key \in physical /\ physical' = physical \ {key})
              => key \notin current_modifiers']_vars

(* After a caught failure the held trigger key, repeating, started a task. *)
C11_Witness ==
  /\ key_errors = <<"RuntimeError">>
  /\ "listener" \in started
  /\ fired >= 1
  /\ tasks # <<>>


(* C12: current_modifiers is always a subset of required_modifiers: a    *)
(* pressed key that is not a configured required modifier is not in the  *)
(* held-modifier set.                                                    *)
C12_HeldSubsetRequired ==
  /\ current_modifiers \subseteq required_modifiers
  /\ \A key \in physical \ required_modifiers : key \notin current_modifiers

(* With shift alone required, cmd and a character key are down and only *)
(* shift is recorded.                                                   *)
C12_Witness ==
  /\ required_modifiers = {Key("shift")}
  /\ Key("cmd") \in physical
  /\ physical \cap CharKeys # {}
  /\ current_modifiers = {Key("shift")}


(* C13: the mode of a task is read when query_llm builds the prompt, not *)
(* captured when the task is triggered: the step takes the value         *)
(* current_mode has then, whatever mode the task's own trigger set, so   *)
(* with two triggers in quick succession the earlier task can build its  *)
(* prompt with the later trigger's mode.                                 *)
C13_ModeReadAtPromptTime ==
  [][\A i \in TaskIds :
       (At(i, "query") /\ tasks'[i].pc = "generate") =>
         /\ tasks[i].intended \in {MODE_MEANING, MODE_TRANSLATE}
         /\ tasks'[i].mode_read = current_mode
         /\ tasks'[i].prompt = build_prompt(current_mode, tasks[i].text)]_vars

(* The first task was triggered for meaning; the period shortcut, still   *)
(* held, then started the second task and set translate; the first task   *)
(* has since read translate and built the translate prompt.               *)
C13_Witness ==
  /\ Len(tasks) = 2
  /\ tasks[1].pc = "generate"
  /\ tasks[1].intended = MODE_MEANING
  /\ tasks[1].mode_read = MODE_TRANSLATE
  /\ tasks[1].prompt = TranslatePrompt(tasks[1].text)
  /\ tasks[2].intended = MODE_TRANSLATE
  /\ tasks[2].pc = "press_cmd"
  /\ KeyPeriod \in physical
  /\ fired = 1


(* C14: every step of a triggered action, from the copy chord to the     *)
(* presentation, runs on a thread started for it: none runs on the main  *)
(* thread or on the listener thread.                                     *)
C14_TasksOffMainThread ==
  \A i \in Live : tasks[i].pc # "done" => tasks[i].thread = "thread"


(* C15: while the application runs and the inference call of a task has  *)
(* not returned, the call                                                *)
(* waits on a thread of its own, the listener is running, a held         *)
(* modifier can be released, and a press of a trigger key with the       *)
(* required modifiers recorded sets the mode and starts a new task,      *)
(* leaving the waiting task as it is.                                    *)
C15_HangBlocksOneTask ==
  \A i \in Live :
    (phase = "running" /\ tasks[i].pc = "generate" /\ Len(tasks) < MaxTasks) =>
      /\ tasks[i].thread = "thread"
      /\ Listening
      /\ \A key \in physical : ENABLED PhysRelease(key)
      /\ \A key \in {KeyComma, KeyPeriod} :
           ( /\ physical \cap CharKeys = {}
             /\ required_modifiers \subseteq current_modifiers
             /\ key.char \in {SHORTCUT_KEY, TRANSLATE_SHORTCUT_KEY} ) =>
             ENABLED ( /\ PhysPress(key)
                       /\ Spawns
                       /\ current_mode' = IF key.char = SHORTCUT_KEY
                                           THEN MODE_MEANING ELSE MODE_TRANSLATE
                       /\ tasks'[i] = tasks[i] )

(* The first task still waits for its answer; the second, started after *)
(* it, has made its request and shown its dialog.                       *)
C15_Witness ==
  /\ Len(tasks) = 2
  /\ tasks[1].pc = "generate"
  /\ tasks[1].requests = 0
  /\ tasks[2].pc = "done"
  /\ tasks[2].requests = 1
  /\ Len(Dialogs(tasks[2].ui)) = 1


(* The step is a press event of key, first or repeated, that satisfies the *)
(* trigger condition and writes the mode of the trigger it matches.        *)
FiredTrigger(key) ==
  /\ Pressed(key) \/ (key \in physical /\ physical' = physical /\ Spawns
                         /\ tasks'[Len(tasks')].thread = "thread")
  /\ key.cls = "KeyCode"
  /\ key.vk \notin {0, 255}
  /\ key.char \in {SHORTCUT_KEY, TRANSLATE_SHORTCUT_KEY}
  /\ required_modifiers \subseteq current_modifiers'
  /\ current_mode' = IF key.char = SHORTCUT_KEY THEN MODE_MEANING ELSE MODE_TRANSLATE

(* The step is a click in the menu: an action run on the main thread, or a *)
(* mode switch, which touches nothing else.                                *)
MenuSelection ==
  \/ Spawns /\ tasks'[Len(tasks')].thread = "main" /\ physical' = physical
  \/ UNCHANGED <<tasks, physical, current_modifiers, fired, clipboard, posted,
                 process>>

(* C16: the mode is meaning when the application starts and is always    *)
(* meaning or translate; it changes only in a press that fires a trigger *)
(* or in a menu selection; a press that fires nothing, a release, and    *)
(* every step of a task leave it unchanged.                              *)
C16_ModeFrame ==
  [][/\ phase' = "running" => current_mode' \in {MODE_MEANING, MODE_TRANSLATE}
     /\ (phase = "start" /\ phase' = "running") => current_mode' = MODE_MEANING
     /\ (phase = "running" /\ current_mode' # current_mode) =>
          \/ \E key \in ModifierKeys \cup CharKeys : FiredTrigger(key)
          \/ MenuSelection
     /\ (\E key \in ModifierKeys \cup CharKeys : Pressed(key) /\ ~Spawns)
          => current_mode' = current_mode
     /\ (physical' # physical /\ physical' \subseteq physical)
          => current_mode' = current_mode
     /\ (\E i \in Live : tasks'[i] # tasks[i]) => current_mode' = current_mode]_vars

(* A trigger set translate with cmd and shift required; the keys are *)
(* released since and the task has run to its end: the mode stands.  *)
C16_Witness ==
  /\ required_modifiers = {Key("cmd"), Key("shift")}
  /\ current_mode = MODE_TRANSLATE
  /\ physical = {}
  /\ Len(tasks) = 1
  /\ tasks[1].pc = "done"
  /\ tasks[1].mode_read = MODE_TRANSLATE


(* The step is the user releasing key: the listener runs on_key_release(key). *)
Released(key) == key \in physical /\ physical' = physical \ {key}

(* C17: a press or a release of a key whose code is 0 or 255 leaves     *)
(* current_modifiers and the mode unchanged and starts no task, in      *)
(* every state, whatever character the event carries; while such a key  *)
(* is held and repeats, the listener starts no thread.                  *)
C17_PaddingIgnored ==
  [][\A key \in {KeyPad0, KeyPad255} :
       /\ (Pressed(key) \/ Released(key)) =>
            UNCHANGED <<current_modifiers, current_mode, tasks, fired>>
       /\ (key \in physical /\ physical' = physical /\ Spawns) =>
            tasks'[Len(tasks')].thread = "main"]_vars

(* The event with code 0 that carries the shortcut's character is down *)
(* with the required cmd and shift recorded, and nothing was started.  *)
C17_Witness ==
  /\ KeyPad0 \in physical
  /\ KeyPad0.char = SHORTCUT_KEY
  /\ required_modifiers = {Key("cmd"), Key("shift")}
  /\ current_modifiers = required_modifiers
  /\ tasks = <<>>


(* What a finished task has displayed: its notifications and dialogs. *)
Outcomes(ui) == SelectSeq(ui, LAMBDA e : e.kind \in {"notification", "dialog"})

(* C18: a task makes at most one inference request, and a task that has *)
(* ended has shown exactly one notification or dialog.                  *)
C18_OneRequestOneOutcome ==
  \A i \in Live :
    /\ tasks[i].requests <= 1
    /\ tasks[i].pc = "done" => Len(Outcomes(tasks[i].ui)) = 1


KnownModifierNames == {"cmd", "shift", "ctrl", "alt"}

(* C19: required_modifiers holds the keys of the configured names that   *)
(* are cmd, shift, ctrl or alt, and nothing for any other name; when no  *)
(* configured name is one of the four it is empty, and then a trigger    *)
(* key that is down has started a task, whatever modifiers are held.     *)
C19_UnknownNamesDropped ==
  phase = "running" =>
    LET names == {SHORTCUT_MODIFIER[j] : j \in 1..Len(SHORTCUT_MODIFIER)}
    IN  /\ required_modifiers = {Key(n) : n \in names \cap KnownModifierNames}
        /\ names \cap KnownModifierNames = {} =>
             /\ required_modifiers = {}
             /\ \A key \in physical \cap {KeyComma, KeyPeriod} :
                  key.char \in {SHORTCUT_KEY, TRANSLATE_SHORTCUT_KEY} =>
                    (fired >= 1 /\ tasks # <<>>)

(* With the one configured name unknown, the period key alone is down and *)
(* its press has started a task.                                          *)
C19_Witness ==
  /\ SHORTCUT_MODIFIER = <<"hyper">>
  /\ physical = {KeyPeriod}
  /\ current_modifiers = {}
  /\ fired = 1
  /\ Len(tasks) = 1
  /\ tasks[1].pc = "press_cmd"
  /\ tasks[1].thread = "thread"
  /\ current_mode = MODE_TRANSLATE


(* C20: two runs of query_llm on the same captured text that received   *)
(* the same answer have presented the same thing, title and message,    *)
(* whatever mode each of them read.                                     *)
C20_ModeOnlyChoosesTemplate ==
  \A i, j \in Live :
    ( /\ tasks[i].pc = "done" /\ tasks[j].pc = "done"
      /\ tasks[i].requests = 1 /\ tasks[j].requests = 1
      /\ tasks[i].pasted # <<>> /\ tasks[i].pasted = tasks[j].pasted
      /\ Len(Dialogs(tasks[i].ui)) = 1 /\ Len(Dialogs(tasks[j].ui)) = 1
      /\ Dialogs(tasks[i].ui)[1].body = Dialogs(tasks[j].ui)[1].body )
    => tasks[i].ui = tasks[j].ui

=============================================================================
